---- MODULE Spec2Model ----
(***************************************************************************)
(* NftProtocolsManager (src/platform/nf-token/nft-protocols-manager.cpp):  *)
(* the in-memory index of registered NFT protocols, its write-through to   *)
(* PlatformDb, the block tip and the paged range query.                    *)
(***************************************************************************)
EXTENDS Integers, Sequences, FiniteSets, TLC

(***************************************************************************)
(* Bounds of the model.                                                    *)
(***************************************************************************)
\* protocol ids are 1..MaxId
MaxId == 2
\* block heights are 0..MaxHeight
MaxHeight == 1
\* the node restarts at most MaxRestarts times in one behaviour
MaxRestarts == 1
\* PlatformDb is written at most MaxStoreWrites times by other writers
MaxStoreWrites == 1
\* the paged query is explored on indexes of up to MaxPageLen entries
MaxPageLen == 5
\* ... whose heights are 0..MaxPageHeight
MaxPageHeight == 5
\* ... with count in -1..MaxPageCount
MaxPageCount == 2
\* ... and startFrom in 0..MaxPageStart
MaxPageStart == 10

(***************************************************************************)
(* Values.                                                                 *)
(***************************************************************************)
\* NfToken::UNKNOWN_TOKEN_PROTOCOL, the reserved id
UNKNOWN_TOKEN_PROTOCOL == 0

Threads == {"t1", "t2"}
NoThread == "none"

ProtocolIds == 1..MaxId
OwnerIds == {"keyA", "keyB"}
NullKeyId == "nullKey"
NullHash == <<"null">>

\* uint256 hash of the block at height h (one chain, so one block per height)
GetBlockHash(h) == <<"block", h>>

\* CBlockIndex: the fields the manager reads
CBlockIndex(h) == [nHeight |-> h, phashBlock |-> GetBlockHash(h)]
Blocks == {CBlockIndex(h) : h \in 0..MaxHeight}
NullBlock == [nHeight |-> -1, phashBlock |-> NullHash]

\* NfTokenProtocol: the fields the manager reads
NfTokenProtocol(id, owner) == [tokenProtocolId |-> id, tokenProtocolOwnerId |-> owner]
Protocols == {NfTokenProtocol(id, o) : id \in ProtocolIds, o \in OwnerIds}
NullProto == NfTokenProtocol(UNKNOWN_TOKEN_PROTOCOL, NullKeyId)

\* CTransaction: a registration transaction carries one descriptor, and its hash
\* commits to it
CTransaction(nftProto) ==
    [hash |-> <<"tx", nftProto.tokenProtocolId, nftProto.tokenProtocolOwnerId>>,
     nftProto |-> nftProto]
Transactions == {CTransaction(nftProto) : nftProto \in Protocols}

\* NftProtoIndex with the transaction hash left at its default
NftProtoIndexNoTx(pindex, txHash, nftProtoPtr) ==
    [pindex |-> pindex, regTxHash |-> NullHash, nftProto |-> nftProtoPtr]

\* NftProtoIndex(pindex, txHash, nftProtoPtr): an entry of the in-memory index
NftProtoIndex(pindex, txHash, nftProtoPtr) ==
    [pindex |-> pindex, regTxHash |-> txHash, nftProto |-> nftProtoPtr]
\* the default-constructed ("null") entry
NullProtoIndex == NftProtoIndex(NullBlock, NullHash, NullProto)
IsNull(protoIndex) == protoIndex.nftProto = NullProto

\* NftProtoDiskIndex with the transaction hash passed for the block hash
NftProtoDiskIndexTxForBlock(blockHash, pindex, txHash, nftProtoPtr) ==
    [blockHash |-> txHash, regTxHash |-> txHash, nftProto |-> nftProtoPtr]

\* NftProtoDiskIndex(blockHash, pindex, txHash, nftProtoPtr): what is serialized;
\* the block is stored by its hash
NftProtoDiskIndex(blockHash, pindex, txHash, nftProtoPtr) ==
    [blockHash |-> blockHash, regTxHash |-> txHash, nftProto |-> nftProtoPtr]
NoDiskIndex == [blockHash |-> NullHash, regTxHash |-> NullHash, nftProto |-> NullProto]

(***************************************************************************)
(* State.                                                                  *)
(***************************************************************************)
VARIABLES
    m_nftProtoIndexSet,     \* the multi-index, as its Tags::Height view: a sequence
                            \* ordered by height, equal heights in insertion order
    m_totalProtocolsCount,
    m_tipHeight,
    m_tipBlockHash,
    m_cs,                   \* owner of the critical section, or NoThread
    dbProtoIndex,           \* PlatformDb: the set of disk indexes stored
    dbTotalCount,           \* PlatformDb: the persisted total count
    dbIssued,               \* PlatformDb: the write primitive the last step issued
    pc,                     \* per thread: where it is in its call
    frame,                  \* per thread: the arguments and locals of its call
    ret,                    \* what the last step returned to its caller
    netAdded,               \* number of AddNftProto calls that returned true minus
                            \* number of Delete calls that returned true
    nRestarts,              \* number of restarts of the node
    added,                  \* per protocol id: the arguments of the AddNftProto call
                            \* that returned true for it, until a Delete erases it
    nStoreWrites            \* number of writes to PlatformDb by other writers

vars == <<m_nftProtoIndexSet, m_totalProtocolsCount, m_tipHeight, m_tipBlockHash, m_cs,
          dbProtoIndex, dbTotalCount, dbIssued, pc, frame, ret, netAdded, nRestarts,
          added, nStoreWrites>>

managerVars == <<m_nftProtoIndexSet, m_totalProtocolsCount, m_tipHeight, m_tipBlockHash>>
dbVars == <<dbProtoIndex, dbTotalCount>>
historyVars == <<netAdded, nRestarts, added, nStoreWrites>>

NoFrame == [op |-> "none"]

\* the arguments of a call of AddNftProto, and their absence
AddArgs(nftProto, tx, pindex) == [nftProto |-> nftProto, tx |-> tx, pindex |-> pindex]
NoAdd == AddArgs(NullProto, [hash |-> NullHash, nftProto |-> NullProto], NullBlock)
\* ret: the call that returned in the last step (its thread, its name, its
\* arguments, its result, and whether it ran into undefined behaviour), or NoRet
NoRet == [thread |-> NoThread, op |-> "none", args |-> <<>>, result |-> FALSE, ub |-> FALSE]
Returned(t, op, args, result) ==
    [thread |-> t, op |-> op, args |-> args, result |-> result, ub |-> FALSE]
ReturnedUB(t, op, args, result) ==
    [thread |-> t, op |-> op, args |-> args, result |-> result, ub |-> TRUE]
\* assert(insRes.second) of line 168 failed in the call
AssertFailed(t, op, args) ==
    [thread |-> t, op |-> "assert(insRes.second)", args |-> <<op>> \o args,
     result |-> FALSE, ub |-> FALSE]
\* the call returns result, unless the assertion failed on its way
Answered(t, op, args, asserted, result) ==
    IF asserted THEN Returned(t, op, args, result) ELSE AssertFailed(t, op, args)

(***************************************************************************)
(* The multi-index container.                                              *)
(***************************************************************************)
IdOf(protoIndex) == protoIndex.nftProto.tokenProtocolId
HeightOf(protoIndex) == protoIndex.pindex.nHeight
IdsOf(set) == {IdOf(set[i]) : i \in DOMAIN set}
Heights(set) == [i \in DOMAIN set |-> HeightOf(set[i])]

\* Find that never finds
FindNothing(set, protocolId) == NullProtoIndex

\* find(protocolId) on the unique protocol-id view; NullProtoIndex stands for end()
Find(set, protocolId) ==
    IF \E i \in DOMAIN set : IdOf(set[i]) = protocolId
    THEN set[CHOOSE i \in DOMAIN set : IdOf(set[i]) = protocolId]
    ELSE NullProtoIndex

InsertAt(set, pos, protoIndex) ==
    SubSeq(set, 1, pos - 1) \o <<protoIndex>> \o SubSeq(set, pos, Len(set))

\* Emplace with the refusal lost: a present id has its entry replaced
EmplaceOverwriting(set, protoIndex) ==
    IF IdOf(protoIndex) \in IdsOf(set)
    THEN [set |-> [i \in DOMAIN set |->
                      IF IdOf(set[i]) = IdOf(protoIndex) THEN protoIndex ELSE set[i]],
          second |-> FALSE]
    ELSE LET after == Cardinality({i \in DOMAIN set : HeightOf(set[i]) <= HeightOf(protoIndex)})
         IN  [set |-> SubSeq(set, 1, after) \o <<protoIndex>> \o SubSeq(set, after + 1, Len(set)),
              second |-> TRUE]

\* Emplace on a container without the unique key: nothing is refused
EmplaceAlways(set, protoIndex) ==
    LET after == Cardinality({i \in DOMAIN set : HeightOf(set[i]) <= HeightOf(protoIndex)})
    IN  [set |-> InsertAt(set, after + 1, protoIndex), second |-> TRUE]

\* emplace: refused when the id is present; otherwise the entry goes after the
\* last entry that is not higher
Emplace(set, protoIndex) ==
    IF IdOf(protoIndex) \in IdsOf(set)
    THEN [set |-> set, second |-> FALSE]
    ELSE LET after == Cardinality({i \in DOMAIN set : HeightOf(set[i]) <= HeightOf(protoIndex)})
         IN  [set |-> InsertAt(set, after + 1, protoIndex), second |-> TRUE]

\* Erase that leaves the entry in the container
EraseNothing(set, protocolId) == set

\* erase(it)
Erase(set, protocolId) == SelectSeq(set, LAMBDA e : IdOf(e) # protocolId)

(***************************************************************************)
(* PlatformDb, the persistent store behind the manager.                    *)
(***************************************************************************)
\* the block index of the node, by block hash
ChainTop == IF MaxHeight > MaxPageHeight THEN MaxHeight ELSE MaxPageHeight
LookupBlockIndex(blockHash) ==
    IF \E h \in 0..ChainTop : GetBlockHash(h) = blockHash
    THEN CBlockIndex(CHOOSE h \in 0..ChainTop : GetBlockHash(h) = blockHash)
    ELSE NullBlock

DiskIdOf(diskIndex) == diskIndex.nftProto.tokenProtocolId
DbIds(db) == {DiskIdOf(d) : d \in db}

\* WriteNftProtoDiskIndex: put under the key of the protocol id
WriteNftProtoDiskIndex(db, protoDiskIndex) ==
    {d \in db : DiskIdOf(d) # DiskIdOf(protoDiskIndex)} \cup {protoDiskIndex}

\* EraseNftProtoDiskIndex: delete the key
EraseNftProtoDiskIndex(db, protocolId) == {d \in db : DiskIdOf(d) # protocolId}

\* the in-memory entry a disk index deserializes to
FromDiskIndex(d) == NftProtoIndex(LookupBlockIndex(d.blockHash), d.regTxHash, d.nftProto)

\* ReadNftProtoIndex: the entry under the key, or the null entry
ReadNftProtoIndex(db, protocolId) ==
    IF protocolId \in DbIds(db)
    THEN FromDiskIndex(CHOOSE d \in db : DiskIdOf(d) = protocolId)
    ELSE NullProtoIndex

\* ProcessNftProtoIndexGutsOnly with the constructor's handler: every persisted
\* entry, in key order, is emplaced into the index
RECURSIVE ProcessNftProtoIndexGutsOnly(_, _)
ProcessNftProtoIndexGutsOnly(db, set) ==
    IF db = {} THEN set
    ELSE LET d == CHOOSE x \in db : \A y \in db : DiskIdOf(x) <= DiskIdOf(y)
         IN  ProcessNftProtoIndexGutsOnly(db \ {d}, Emplace(set, FromDiskIndex(d)).set)

NoWrite == "none"

(***************************************************************************)
(* Construction.                                                           *)
(***************************************************************************)
\* the tip before the first UpdateBlockTip
InitialTipHeight == 0

\* NftProtocolsManager::NftProtocolsManager on the store (db, count)
Constructed(db, count) ==
    /\ m_totalProtocolsCount = count
    /\ m_nftProtoIndexSet = ProcessNftProtoIndexGutsOnly(db, <<>>)
    /\ m_tipHeight = InitialTipHeight
    /\ m_tipBlockHash = NullHash
    /\ m_cs = NoThread
    /\ pc = [t \in Threads |-> "idle"]
    /\ frame = [t \in Threads |-> NoFrame]

\* a new manager on an empty store
Init ==
    /\ dbProtoIndex = {}
    /\ dbTotalCount = 0
    /\ dbIssued = NoWrite
    /\ Constructed(dbProtoIndex, dbTotalCount)
    /\ ret = NoRet
    /\ netAdded = 0
    /\ nRestarts = 0
    /\ added = [id \in ProtocolIds |-> NoAdd]
    /\ nStoreWrites = 0

(***************************************************************************)
(* AddNftProto (lines 23-42).                                              *)
(***************************************************************************)
\* lines 25-35 and 41: lock, emplace; a refused emplace returns false
AddNftProto(t, nftProto, tx, pindex) ==
    /\ pc[t] = "idle"
    /\ m_cs = NoThread
    /\ LET nftProtoIndex == NftProtoIndex(pindex, tx.hash, nftProto)
           itRes == Emplace(m_nftProtoIndexSet, nftProtoIndex)
       IN  IF itRes.second
           THEN /\ m_nftProtoIndexSet' = itRes.set
                /\ m_cs' = t
                /\ pc' = [pc EXCEPT ![t] = "AddWriteDiskIndex"]
                /\ frame' = [frame EXCEPT ![t] =
                                [op |-> "AddNftProto", protoIndex |-> nftProtoIndex,
                                 args |-> AddArgs(nftProto, tx, pindex)]]
                /\ ret' = NoRet
           ELSE /\ m_nftProtoIndexSet' = itRes.set
                /\ ret' = Returned(t, "AddNftProto", <<nftProto.tokenProtocolId>>, FALSE)
                /\ UNCHANGED <<m_cs, pc, frame>>
    /\ dbIssued' = NoWrite
    /\ UNCHANGED <<m_totalProtocolsCount, m_tipHeight, m_tipBlockHash, dbVars, historyVars>>

\* AddWriteDiskIndex with the write of the entry left out
AddWriteDiskIndexSkipped(t) ==
    /\ pc[t] = "AddWriteDiskIndex"
    /\ dbIssued' = NoWrite
    /\ pc' = [pc EXCEPT ![t] = "AddWriteTotalCount"]
    /\ ret' = NoRet
    /\ UNCHANGED <<managerVars, m_cs, dbVars, frame, historyVars>>

\* lines 37-38: the entry is written through
AddWriteDiskIndex(t) ==
    /\ pc[t] = "AddWriteDiskIndex"
    /\ LET e == frame[t].protoIndex
           protoDiskIndex == NftProtoDiskIndex(e.pindex.phashBlock, e.pindex, e.regTxHash, e.nftProto)
       IN  dbProtoIndex' = WriteNftProtoDiskIndex(dbProtoIndex, protoDiskIndex)
    /\ dbIssued' = "WriteNftProtoDiskIndex"
    /\ pc' = [pc EXCEPT ![t] = "AddWriteTotalCount"]
    /\ ret' = NoRet
    /\ UNCHANGED <<managerVars, m_cs, dbTotalCount, frame, historyVars>>

\* line 39: ++m_totalProtocolsCount
Incremented(count) == count + 1

\* lines 39-41: the count is incremented and written, the lock released, true returned
AddWriteTotalCount(t) ==
    /\ pc[t] = "AddWriteTotalCount"
    /\ m_totalProtocolsCount' = Incremented(m_totalProtocolsCount)
    /\ dbTotalCount' = m_totalProtocolsCount'
    /\ dbIssued' = "WriteTotalProtocolCount"
    /\ m_cs' = NoThread
    /\ pc' = [pc EXCEPT ![t] = "idle"]
    /\ frame' = [frame EXCEPT ![t] = NoFrame]
    /\ ret' = Returned(t, "AddNftProto", <<IdOf(frame[t].protoIndex)>>, TRUE)
    /\ netAdded' = netAdded + 1
    /\ added' = [added EXCEPT ![IdOf(frame[t].protoIndex)] = frame[t].args]
    /\ UNCHANGED <<m_nftProtoIndexSet, m_tipHeight, m_tipBlockHash, dbProtoIndex, nRestarts,
                   nStoreWrites>>

(***************************************************************************)
(* Lookups (lines 44-89, 162-176).                                         *)
(***************************************************************************)
\* GetNftProtoIndexFromDb: a non-null entry read from the store is emplaced
\* (insRes.second is asserted) and returned; else the null entry
GetNftProtoIndexFromDb(set, db, protocolId) ==
    LET protoIndex == ReadNftProtoIndex(db, protocolId)
    IN  IF ~IsNull(protoIndex)
        THEN LET insRes == Emplace(set, protoIndex)
             IN  [set |-> insRes.set, result |-> protoIndex, asserted |-> insRes.second]
        ELSE [set |-> set, result |-> protoIndex, asserted |-> TRUE]

\* the body of GetNftProtoIndex: the index first, the store on a miss
GetNftProtoIndexBody(set, db, protocolId) ==
    LET it == Find(set, protocolId)
    IN  IF ~IsNull(it)
        THEN [set |-> set, result |-> it, asserted |-> TRUE]
        ELSE GetNftProtoIndexFromDb(set, db, protocolId)

\* VisibleAt with < for <=
VisibleBelow(protoIndex, height) == HeightOf(protoIndex) < height

\* line 59: the entry is visible at height
VisibleAt(protoIndex, height) == HeightOf(protoIndex) <= height

\* the body of Contains(protocolId, height)
ContainsBody(set, db, protocolId, height) ==
    LET got == GetNftProtoIndexBody(set, db, protocolId)
    IN  [set |-> got.set,
         result |-> IF ~IsNull(got.result) THEN VisibleAt(got.result, height) ELSE FALSE,
         asserted |-> got.asserted]

\* a call that takes the lock for its whole body and returns
Query(t, newSet, returned) ==
    /\ pc[t] = "idle"
    /\ m_cs = NoThread
    /\ m_nftProtoIndexSet' = newSet
    /\ ret' = returned
    /\ dbIssued' = NoWrite
    /\ UNCHANGED <<m_totalProtocolsCount, m_tipHeight, m_tipBlockHash, m_cs, dbVars,
                   pc, frame, historyVars>>

\* Contains(protocolId, height), lines 51-61
Contains(t, protocolId, height) ==
    LET r == ContainsBody(m_nftProtoIndexSet, dbProtoIndex, protocolId, height)
    IN  Query(t, r.set, Answered(t, "Contains", <<protocolId, height>>, r.asserted, r.result))

\* Contains(protocolId), lines 44-49: the tip height is read under the lock
ContainsAtTip(t, protocolId) ==
    LET r == ContainsBody(m_nftProtoIndexSet, dbProtoIndex, protocolId, m_tipHeight)
    IN  Query(t, r.set, Answered(t, "ContainsAtTip", <<protocolId>>, r.asserted, r.result))

\* GetNftProtoIndex, lines 63-75
GetNftProtoIndex(t, protocolId) ==
    LET r == GetNftProtoIndexBody(m_nftProtoIndexSet, dbProtoIndex, protocolId)
    IN  Query(t, r.set, Answered(t, "GetNftProtoIndex", <<protocolId>>, r.asserted, r.result))

\* OwnerOf, lines 77-89; on a miss in index and store the null entry's descriptor
\* pointer is dereferenced: undefined behaviour, any key id may come back
OwnerOf(t, protocolId) ==
    LET it == Find(m_nftProtoIndexSet, protocolId)
        r == GetNftProtoIndexFromDb(m_nftProtoIndexSet, dbProtoIndex, protocolId)
    IN  IF ~IsNull(it)
        THEN Query(t, m_nftProtoIndexSet,
                   Returned(t, "OwnerOf", <<protocolId>>, it.nftProto.tokenProtocolOwnerId))
        ELSE IF ~IsNull(r.result)
        THEN Query(t, r.set,
                   Answered(t, "OwnerOf", <<protocolId>>, r.asserted,
                            r.result.nftProto.tokenProtocolOwnerId))
        ELSE \E garbage \in OwnerIds \cup {NullKeyId} :
                Query(t, r.set, ReturnedUB(t, "OwnerOf", <<protocolId>>, garbage))

(***************************************************************************)
(* Range processing (lines 91-126).                                        *)
(***************************************************************************)
\* the handlers a caller may pass: what protoIndexHandler returns for an entry
Handlers == {"accept", "reject"}
HandlerResult(handler, protoIndex) == handler = "accept"

\* what a processing loop did: the entries handed to the handler, in order, and
\* the number of "processing failed" lines logged
Processed(handler, visited) ==
    [visited |-> visited,
     logged |-> Cardinality({i \in DOMAIN visited : ~HandlerResult(handler, visited[i])})]

\* the protocol-id view of the index: the entries in id order
ById(set) ==
    [k \in 1..Len(set) |->
        set[CHOOSE i \in DOMAIN set :
                Cardinality({j \in DOMAIN set : IdOf(set[j]) < IdOf(set[i])}) = k - 1]]

\* ProcessFullNftProtoIndexRange, lines 91-99
ProcessFullNftProtoIndexRange(t, handler) ==
    Query(t, m_nftProtoIndexSet,
          Returned(t, "ProcessFullNftProtoIndexRange", <<handler>>,
                   Processed(handler, ById(m_nftProtoIndexSet))))

\* lines 107-112: originalRange is the prefix of the height view with
\* curHeight <= height; rangeSize is its length
RangeSize(set, height) == Cardinality({i \in DOMAIN set : HeightOf(set[i]) <= height})

\* line 115
ReverseBegin(rangeSize, startFrom) == IF rangeSize < startFrom THEN rangeSize ELSE startFrom

\* line 116
ReverseEnd(rangeSize, count, startFrom) ==
    IF rangeSize < startFrom + count THEN 0 ELSE ReverseBegin(rangeSize, startFrom) - count

\* lines 117-118: std::prev(originalRange.second, n), as a position of the height
\* view (originalRange.second is at position rangeSize + 1, end() at Len + 1)
PrevOfSecond(rangeSize, n) == rangeSize + 1 - n

\* what walking past end() may hand to the handler before the walk stops
UBTails(set) == {<<>>} \cup {<<set[i]>> : i \in DOMAIN set}

\* lines 117-125: the entries of [begin, end) go to the handler. When end lies
\* beyond end() of the container, or begin lies after end, the loop increments
\* an iterator past end(): undefined behaviour
PageOutcomes(set, height, count, startFrom) ==
    LET rangeSize == RangeSize(set, height)
        begin == PrevOfSecond(rangeSize, ReverseBegin(rangeSize, startFrom))
        end == PrevOfSecond(rangeSize, ReverseEnd(rangeSize, count, startFrom))
    IN  IF begin <= end /\ end <= Len(set) + 1
        THEN {[visited |-> SubSeq(set, begin, end - 1), ub |-> FALSE]}
        ELSE {[visited |-> SubSeq(set, begin, Len(set)) \o tail, ub |-> TRUE] :
                 tail \in UBTails(set)}

\* ProcessNftProtoIndexRangeByHeight, lines 101-126
ProcessNftProtoIndexRangeByHeight(t, handler, height, count, startFrom) ==
    \E page \in PageOutcomes(m_nftProtoIndexSet, height, count, startFrom) :
        Query(t, m_nftProtoIndexSet,
              [thread |-> t,
               op |-> "ProcessNftProtoIndexRangeByHeight",
               args |-> <<handler, height, count, startFrom>>,
               result |-> Processed(handler, page.visited),
               ub |-> page.ub])

(***************************************************************************)
(* Delete (lines 128-149).                                                 *)
(***************************************************************************)
\* Deletable with the test against end() lost
DeletableUnchecked(it, height) == HeightOf(it) <= height

\* Deletable with the height test lost
DeletableAtAnyHeight(it, height) == ~IsNull(it)

\* line 140: the entry is there and not above height
Deletable(it, height) == ~IsNull(it) /\ HeightOf(it) <= height

\* Delete(protocolId, height), lines 135-142 and 148: lock, find; the entry is
\* erased when found with nHeight <= height, else false is returned
DeleteBody(t, op, protocolId, height) ==
    /\ m_cs = NoThread
    /\ LET it == Find(m_nftProtoIndexSet, protocolId)
       IN  IF Deletable(it, height)
           THEN /\ m_nftProtoIndexSet' = Erase(m_nftProtoIndexSet, protocolId)
                /\ m_cs' = t
                /\ pc' = [pc EXCEPT ![t] = "DeleteEraseDiskIndex"]
                /\ frame' = [frame EXCEPT ![t] =
                                [op |-> op, protocolId |-> protocolId, height |-> height]]
                /\ ret' = NoRet
                /\ added' = [added EXCEPT ![protocolId] = NoAdd]
           ELSE /\ ret' = Returned(t, op, <<protocolId, height>>, FALSE)
                /\ pc' = [pc EXCEPT ![t] = "idle"]
                /\ frame' = [frame EXCEPT ![t] = NoFrame]
                /\ UNCHANGED <<m_nftProtoIndexSet, m_cs, added>>
    /\ dbIssued' = NoWrite
    /\ UNCHANGED <<m_totalProtocolsCount, m_tipHeight, m_tipBlockHash, dbVars, netAdded,
                   nRestarts, nStoreWrites>>

\* a caller calls Delete(protocolId, height)
Delete(t, protocolId, height) ==
    /\ pc[t] = "idle"
    /\ DeleteBody(t, "Delete", protocolId, height)

\* Delete(protocolId), line 130: m_tipHeight is read for the argument of the
\* call, with m_cs not held
DeleteAtTip(t, protocolId) ==
    /\ pc[t] = "idle"
    /\ pc' = [pc EXCEPT ![t] = "DeleteAtTip"]
    /\ frame' = [frame EXCEPT ![t] =
                    [op |-> "DeleteAtTip", protocolId |-> protocolId, height |-> m_tipHeight]]
    /\ ret' = NoRet
    /\ dbIssued' = NoWrite
    /\ UNCHANGED <<managerVars, m_cs, dbVars, historyVars>>

\* ... and Delete(protocolId, height) runs with the height that was read
DeleteAtTipCall(t) ==
    /\ pc[t] = "DeleteAtTip"
    /\ DeleteBody(t, "DeleteAtTip", frame[t].protocolId, frame[t].height)

\* line 143
DeleteEraseDiskIndex(t) ==
    /\ pc[t] = "DeleteEraseDiskIndex"
    /\ dbProtoIndex' = EraseNftProtoDiskIndex(dbProtoIndex, frame[t].protocolId)
    /\ dbIssued' = "EraseNftProtoDiskIndex"
    /\ pc' = [pc EXCEPT ![t] = "DeleteWriteTotalCount"]
    /\ ret' = NoRet
    /\ UNCHANGED <<managerVars, m_cs, dbTotalCount, frame, historyVars>>

\* Decremented with the decrement lost
NotDecremented(count) == count

\* line 144: --m_totalProtocolsCount
Decremented(count) == count - 1

\* lines 144-145
DeleteWriteTotalCount(t) ==
    /\ pc[t] = "DeleteWriteTotalCount"
    /\ m_totalProtocolsCount' = Decremented(m_totalProtocolsCount)
    /\ dbTotalCount' = m_totalProtocolsCount'
    /\ dbIssued' = "WriteTotalProtocolCount"
    /\ m_cs' = NoThread
    /\ pc' = [pc EXCEPT ![t] = "idle"]
    /\ frame' = [frame EXCEPT ![t] = NoFrame]
    /\ ret' = Returned(t, frame[t].op, <<frame[t].protocolId, frame[t].height>>, TRUE)
    /\ netAdded' = netAdded - 1
    /\ UNCHANGED <<m_nftProtoIndexSet, m_tipHeight, m_tipBlockHash, dbProtoIndex, nRestarts,
                   added, nStoreWrites>>

(***************************************************************************)
(* UpdateBlockTip (lines 151-160).                                         *)
(***************************************************************************)
\* NewTipHeight with the height of the block after pindex
HeightAfter(pindex) == pindex.nHeight + 1

\* line 157
NewTipHeight(pindex) == pindex.nHeight

UpdateBlockTip(t, pindex) ==
    /\ pc[t] = "idle"
    /\ m_cs = NoThread
    /\ m_tipHeight' = NewTipHeight(pindex)
    /\ m_tipBlockHash' = pindex.phashBlock
    /\ ret' = Returned(t, "UpdateBlockTip", <<pindex>>, TRUE)
    /\ dbIssued' = NoWrite
    /\ UNCHANGED <<m_nftProtoIndexSet, m_totalProtocolsCount, m_cs, dbVars, pc, frame,
                   historyVars>>

(***************************************************************************)
(* The node stops at any point and a new manager is constructed on the     *)
(* store it left (lines 13-21).                                            *)
(***************************************************************************)
Restart ==
    /\ nRestarts < MaxRestarts
    /\ nRestarts' = nRestarts + 1
    /\ m_totalProtocolsCount' = dbTotalCount
    /\ m_nftProtoIndexSet' = ProcessNftProtoIndexGutsOnly(dbProtoIndex, <<>>)
    /\ m_tipHeight' = InitialTipHeight
    /\ m_tipBlockHash' = NullHash
    /\ m_cs' = NoThread
    /\ pc' = [t \in Threads |-> "idle"]
    /\ frame' = [t \in Threads |-> NoFrame]
    /\ ret' = Returned(NoThread, "NftProtocolsManager", <<>>, TRUE)
    /\ dbIssued' = NoWrite
    /\ UNCHANGED <<dbVars, netAdded, added, nStoreWrites>>

(***************************************************************************)
(* Contains, one step per LOCK(m_cs) on its path (lines 46, 53 and 65),    *)
(* with the critical section not re-entrant.                               *)
(***************************************************************************)
\* LOCK(m_cs) lets thread t pass: not while a thread, t included, holds m_cs
CanLock(t) == m_cs = NoThread

\* a caller calls Contains(protocolId): the thread arrives at line 46
ContainsAtTipCalled(t, protocolId) ==
    /\ pc[t] = "idle"
    /\ pc' = [pc EXCEPT ![t] = "LOCK46"]
    /\ frame' = [frame EXCEPT ![t] =
                    [op |-> "ContainsAtTip", protocolId |-> protocolId, height |-> -1]]
    /\ ret' = NoRet
    /\ dbIssued' = NoWrite
    /\ UNCHANGED <<managerVars, m_cs, dbVars, historyVars>>

\* a caller calls Contains(protocolId, height): the thread arrives at line 53
ContainsCalled(t, protocolId, height) ==
    /\ pc[t] = "idle"
    /\ pc' = [pc EXCEPT ![t] = "LOCK53"]
    /\ frame' = [frame EXCEPT ![t] =
                    [op |-> "Contains", protocolId |-> protocolId, height |-> height]]
    /\ ret' = NoRet
    /\ dbIssued' = NoWrite
    /\ UNCHANGED <<managerVars, m_cs, dbVars, historyVars>>

\* the thread passes the LOCK it is at. After line 46 m_tipHeight is read and
\* Contains(protocolId, height) called (line 48); after line 53
\* GetNftProtoIndex is called (line 57); after line 65 the bodies run to the
\* return of the outermost call, which leaves the critical section
Locked(t) ==
    /\ pc[t] \in {"LOCK46", "LOCK53", "LOCK65"}
    /\ CanLock(t)
    /\ dbIssued' = NoWrite
    /\ IF pc[t] = "LOCK46"
       THEN /\ m_cs' = t
            /\ pc' = [pc EXCEPT ![t] = "LOCK53"]
            /\ frame' = [frame EXCEPT ![t].height = m_tipHeight]
            /\ ret' = NoRet
            /\ UNCHANGED m_nftProtoIndexSet
       ELSE IF pc[t] = "LOCK53"
       THEN /\ m_cs' = t
            /\ pc' = [pc EXCEPT ![t] = "LOCK65"]
            /\ ret' = NoRet
            /\ UNCHANGED <<m_nftProtoIndexSet, frame>>
       ELSE LET r == ContainsBody(m_nftProtoIndexSet, dbProtoIndex,
                                  frame[t].protocolId, frame[t].height)
            IN  /\ m_nftProtoIndexSet' = r.set
                /\ m_cs' = NoThread
                /\ pc' = [pc EXCEPT ![t] = "idle"]
                /\ frame' = [frame EXCEPT ![t] = NoFrame]
                /\ ret' = Answered(t, frame[t].op,
                                   IF frame[t].op = "Contains"
                                   THEN <<frame[t].protocolId, frame[t].height>>
                                   ELSE <<frame[t].protocolId>>,
                                   r.asserted, r.result)
    /\ UNCHANGED <<m_totalProtocolsCount, m_tipHeight, m_tipBlockHash, dbVars, historyVars>>

(***************************************************************************)
(* Specifications.                                                         *)
(***************************************************************************)
\* the arguments callers pass to the paged query outside SpecPage
PageCounts == {1}
PageStarts == {1}

\* one step of thread t in a member function with at most one LOCK(m_cs) on
\* its path
StepOneLock(t) ==
    \/ \E tx \in Transactions, pindex \in Blocks :
            AddNftProto(t, tx.nftProto, tx, pindex)
    \/ AddWriteDiskIndex(t)
    \/ AddWriteTotalCount(t)
    \/ \E protocolId \in ProtocolIds : GetNftProtoIndex(t, protocolId)
    \/ \E protocolId \in ProtocolIds : OwnerOf(t, protocolId)
    \/ \E handler \in Handlers : ProcessFullNftProtoIndexRange(t, handler)
    \/ \E height \in 0..MaxHeight, count \in PageCounts, startFrom \in PageStarts :
            ProcessNftProtoIndexRangeByHeight(t, "accept", height, count, startFrom)
    \/ \E protocolId \in ProtocolIds, height \in 0..MaxHeight :
            Delete(t, protocolId, height)
    \/ \E protocolId \in ProtocolIds : DeleteAtTip(t, protocolId)
    \/ DeleteAtTipCall(t)
    \/ DeleteEraseDiskIndex(t)
    \/ DeleteWriteTotalCount(t)
    \/ \E pindex \in Blocks : UpdateBlockTip(t, pindex)

\* one step of thread t
Step(t) ==
    \/ StepOneLock(t)
    \/ \E protocolId \in ProtocolIds, height \in 0..MaxHeight :
            Contains(t, protocolId, height)
    \/ \E protocolId \in ProtocolIds : ContainsAtTip(t, protocolId)

\* Spec: one thread calls the manager, from an empty store
Next == Step("t1")
Spec == Init /\ [][Next]_vars

\* SpecThreads: the threads of the node call the manager concurrently
NextThreads == \E t \in Threads : Step(t)
SpecThreads == Init /\ [][NextThreads]_vars

\* SpecRestart: as Spec, and the node may stop at any point and start again
NextRestart == Step("t1") \/ Restart
SpecRestart == Init /\ [][NextRestart]_vars

\* SpecStore: as SpecThreads, and PlatformDb, which every component of the node
\* reaches through PlatformDb::Instance(), is also given the disk index of a
\* protocol it does not hold by a writer other than this manager
PlatformDbWritten(protoDiskIndex) ==
    /\ nStoreWrites < MaxStoreWrites
    /\ nStoreWrites' = nStoreWrites + 1
    /\ DiskIdOf(protoDiskIndex) \notin DbIds(dbProtoIndex)
    /\ dbProtoIndex' = WriteNftProtoDiskIndex(dbProtoIndex, protoDiskIndex)
    /\ dbIssued' = "WriteNftProtoDiskIndex"
    /\ ret' = NoRet
    /\ UNCHANGED <<managerVars, m_cs, dbTotalCount, pc, frame, netAdded, nRestarts, added>>
DiskIndexes ==
    {NftProtoDiskIndex(pindex.phashBlock, pindex, tx.hash, tx.nftProto) :
        tx \in Transactions, pindex \in Blocks}
NextStore ==
    \/ \E t \in Threads : Step(t)
    \/ \E protoDiskIndex \in DiskIndexes : PlatformDbWritten(protoDiskIndex)
SpecStore == Init /\ [][NextStore]_vars

\* SpecLock: as SpecThreads, with Contains taking each LOCK(m_cs) on its path in
\* a step of its own; every thread that can take a step infinitely often does
StepLock(t) ==
    \/ StepOneLock(t)
    \/ \E protocolId \in ProtocolIds, height \in 0..MaxHeight :
            ContainsCalled(t, protocolId, height)
    \/ \E protocolId \in ProtocolIds : ContainsAtTipCalled(t, protocolId)
    \/ Locked(t)
NextLock == \E t \in Threads : StepLock(t)
SpecLock == Init /\ [][NextLock]_vars /\ \A t \in Threads : SF_vars(StepLock(t))

(***************************************************************************)
(* SpecPage: the paged query on every index of up to MaxPageLen entries.   *)
(***************************************************************************)
\* the entry a successful AddNftProto of protocol id at height h leaves
PageEntry(id, h) ==
    LET nftProto == NfTokenProtocol(id, "keyA")
    IN  NftProtoIndex(CBlockIndex(h), CTransaction(nftProto).hash, nftProto)

\* the height views of the indexes: heights ascending, one id per entry (the
\* ids descend, so that id order and height order differ)
PageIndexes ==
    UNION {{[i \in 1..n |-> PageEntry(n + 1 - i, hs[i])] :
                hs \in {f \in [1..n -> 0..MaxPageHeight] :
                            \A i \in 1..n, j \in 1..n : i < j => f[i] <= f[j]}} :
           n \in 0..MaxPageLen}

ToDiskIndex(e) == NftProtoDiskIndex(e.pindex.phashBlock, e.pindex, e.regTxHash, e.nftProto)

\* a manager whose index was filled by successful AddNftProto calls
InitPage ==
    /\ m_nftProtoIndexSet \in PageIndexes
    /\ m_totalProtocolsCount = Len(m_nftProtoIndexSet)
    /\ m_tipHeight = InitialTipHeight
    /\ m_tipBlockHash = NullHash
    /\ m_cs = NoThread
    /\ pc = [t \in Threads |-> "idle"]
    /\ frame = [t \in Threads |-> NoFrame]
    /\ dbProtoIndex = {ToDiskIndex(m_nftProtoIndexSet[i]) : i \in DOMAIN m_nftProtoIndexSet}
    /\ dbTotalCount = m_totalProtocolsCount
    /\ dbIssued = NoWrite
    /\ ret = NoRet
    /\ netAdded = m_totalProtocolsCount
    /\ nRestarts = 0
    /\ added = [id \in 1..MaxPageLen |->
                    IF id \in IdsOf(m_nftProtoIndexSet)
                    THEN LET e == Find(m_nftProtoIndexSet, id)
                         IN  AddArgs(e.nftProto, CTransaction(e.nftProto), e.pindex)
                    ELSE NoAdd]
    /\ nStoreWrites = 0

\* one call of the paged query
NextPage ==
    /\ ret = NoRet
    /\ \E handler \in Handlers, height \in 0..MaxPageHeight,
          count \in (-1)..MaxPageCount, startFrom \in 0..MaxPageStart :
            ProcessNftProtoIndexRangeByHeight("t1", handler, height, count, startFrom)

SpecPage == InitPage /\ [][NextPage]_vars

(***************************************************************************)
(* Properties.                                                             *)
(***************************************************************************)
\* the entries that are registered: in the index or in the store
Registered == {m_nftProtoIndexSet[i] : i \in DOMAIN m_nftProtoIndexSet}
                \cup {FromDiskIndex(d) : d \in dbProtoIndex}

\* a step in which thread t calls AddNftProto for protocolId: the call returns
\* in the step, or goes on to the write-through
AddCalled(t, protocolId) ==
    /\ pc[t] = "idle"
    /\ \/ ret'.thread = t /\ ret'.op = "AddNftProto" /\ ret'.args[1] = protocolId
       \/ pc'[t] = "AddWriteDiskIndex" /\ IdOf(frame'[t].protoIndex) = protocolId

\* C1: AddNftProto with a protocol id that is in the index returns false and
\* changes nothing: the index (so the prior entry's tx hash, block and
\* descriptor), the total count and the store stay as they were, and no write
\* is issued to the store.
C1_AddPresentIdChangesNothing ==
    [][\A t \in Threads, protocolId \in ProtocolIds :
          (protocolId \in IdsOf(m_nftProtoIndexSet) /\ AddCalled(t, protocolId))
          => /\ ret' = Returned(t, "AddNftProto", <<protocolId>>, FALSE)
             /\ m_nftProtoIndexSet' = m_nftProtoIndexSet
             /\ m_totalProtocolsCount' = m_totalProtocolsCount
             /\ dbProtoIndex' = dbProtoIndex
             /\ dbTotalCount' = dbTotalCount
             /\ dbIssued' = NoWrite
             /\ pc'[t] = "idle"]_vars

\* C1 witness: an AddNftProto has returned false for an id whose entry is in the
\* index, next to another entry
C1_Witness ==
    /\ ret.op = "AddNftProto"
    /\ ret.result = FALSE
    /\ ret.args[1] \in IdsOf(m_nftProtoIndexSet)
    /\ Len(m_nftProtoIndexSet) = 2

\* C2: from an empty store, whenever no call is inside the critical section the
\* total count equals the number of AddNftProto calls that returned true minus
\* the number of Delete calls that returned true, and equals the number of
\* entries in the index.
C2_CountIsAddsMinusDeletes ==
    m_cs = NoThread =>
        /\ m_totalProtocolsCount = netAdded
        /\ m_totalProtocolsCount = Len(m_nftProtoIndexSet)

\* C2 witness: a Delete has returned true and one entry of two is left
C2_Witness ==
    /\ ret.op \in {"Delete", "DeleteAtTip"}
    /\ ret.result = TRUE
    /\ m_totalProtocolsCount = 1
    /\ Len(m_nftProtoIndexSet) = 1

\* C3: Contains(protocolId, height) returns true iff an entry with that id is
\* registered and its block height is <= height.
C3_ContainsIffRegisteredAtOrBelow ==
    ret.op = "Contains" =>
        (ret.result = TRUE <=>
            \E e \in Registered : IdOf(e) = ret.args[1] /\ HeightOf(e) <= ret.args[2])

\* C3 witness: Contains has returned true at exactly the entry's height, above 0
C3_Witness ==
    /\ ret.op = "Contains"
    /\ ret.result = TRUE
    /\ ret.args[2] > 0
    /\ HeightOf(Find(m_nftProtoIndexSet, ret.args[1])) = ret.args[2]

\* the calls of Delete(protocolId, height) that are past the erase from the index
DeleteInProgress(t) ==
    /\ pc[t] \in {"DeleteEraseDiskIndex", "DeleteWriteTotalCount"}
    /\ frame[t].op = "Delete"

\* a step in which thread t calls Delete(protocolId, height): the call returns
\* in the step, or goes on to the write-through
DeleteCalled(t, protocolId, height) ==
    /\ pc[t] = "idle"
    /\ \/ ret'.thread = t /\ ret'.op = "Delete" /\ ret'.args = <<protocolId, height>>
       \/ /\ pc'[t] # "idle"
          /\ frame'[t] = [op |-> "Delete", protocolId |-> protocolId, height |-> height]

\* C4: for an id in the index with stored height s, Delete(protocolId, height)
\* with s > height returns false and leaves index, store and total count as they
\* were; with s <= height the call erases the entry, and when it returns, it
\* returns true, the id is in neither the index nor the store, and the total
\* count, unchanged since the call began, is one lower.
C4_DeleteByHeight ==
    [][\A t \in Threads :
          /\ \A protocolId \in IdsOf(m_nftProtoIndexSet), height \in 0..MaxHeight :
                DeleteCalled(t, protocolId, height) =>
                    IF HeightOf(Find(m_nftProtoIndexSet, protocolId)) > height
                    THEN /\ ret' = Returned(t, "Delete", <<protocolId, height>>, FALSE)
                         /\ m_nftProtoIndexSet' = m_nftProtoIndexSet
                         /\ m_totalProtocolsCount' = m_totalProtocolsCount
                         /\ dbProtoIndex' = dbProtoIndex
                         /\ dbTotalCount' = dbTotalCount
                         /\ dbIssued' = NoWrite
                    ELSE /\ DeleteInProgress(t)'
                         /\ protocolId \notin IdsOf(m_nftProtoIndexSet')
                         /\ m_totalProtocolsCount' = m_totalProtocolsCount
          /\ (DeleteInProgress(t) /\ nRestarts' = nRestarts) =>
                IF DeleteInProgress(t)'
                THEN m_totalProtocolsCount' = m_totalProtocolsCount
                ELSE /\ ret' = Returned(t, "Delete", <<frame[t].protocolId, frame[t].height>>, TRUE)
                     /\ frame[t].protocolId \notin IdsOf(m_nftProtoIndexSet')
                     /\ frame[t].protocolId \notin DbIds(dbProtoIndex')
                     /\ m_totalProtocolsCount' = m_totalProtocolsCount - 1
                     /\ dbTotalCount' = m_totalProtocolsCount']_vars

\* C4 witness: a Delete has returned true while another entry stays registered
C4_Witness ==
    /\ ret.op = "Delete"
    /\ ret.result = TRUE
    /\ ret.args[1] \notin IdsOf(m_nftProtoIndexSet)
    /\ ret.args[1] \notin DbIds(dbProtoIndex)
    /\ Len(m_nftProtoIndexSet) = 1

(***************************************************************************)
(* The paged query (checked under SpecPage).                               *)
(***************************************************************************)
\* the paged query has returned, and its walk stayed inside the container (the
\* properties below are stated on these calls, where the outcome is defined)
PageReturned == ret.op = "ProcessNftProtoIndexRangeByHeight" /\ ~ret.ub
PageHeight == ret.args[2]
PageCount == ret.args[3]
PageStartFrom == ret.args[4]
PageVisited == ret.result.visited

\* R: the entries with block height <= height, ascending
HeightRange(set, height) == SubSeq(set, 1, RangeSize(set, height))

\* R with its last startFrom entries dropped, then the last count of the rest
DropThenKeepLast(range, count, startFrom) ==
    LET rest == IF startFrom < Len(range) THEN SubSeq(range, 1, Len(range) - startFrom) ELSE <<>>
    IN  IF count < Len(rest) THEN SubSeq(rest, Len(rest) - count + 1, Len(rest)) ELSE rest

\* C5: on entries at heights [1,2,3,4,5], with height = 5 and count = 2, the
\* handler gets the entries at heights [4,5] for startFrom = 0, [2,3] for
\* startFrom = 2, [1,2] for startFrom = 4 and none for startFrom = 10.
C5_PaginationExample ==
    (/\ PageReturned
     /\ Heights(m_nftProtoIndexSet) = <<1, 2, 3, 4, 5>>
     /\ PageHeight = 5
     /\ PageCount = 2
     /\ PageStartFrom \in {0, 2, 4, 10})
    => Heights(PageVisited) = CASE PageStartFrom = 0 -> <<4, 5>>
                                [] PageStartFrom = 2 -> <<2, 3>>
                                [] PageStartFrom = 4 -> <<1, 2>>
                                [] PageStartFrom = 10 -> <<>>

\* C6: for count >= 0 and startFrom >= 0 the handler gets exactly R with its
\* last startFrom entries dropped and then the last count of the rest kept, in
\* ascending height order (so at most count entries).
C6_PageIsWindowFromEnd ==
    (PageReturned /\ PageCount >= 0 /\ PageStartFrom >= 0)
    => PageVisited = DropThenKeepLast(HeightRange(m_nftProtoIndexSet, PageHeight),
                                      PageCount, PageStartFrom)

\* C7: for count >= 0 and startFrom >= 0 every entry the handler gets has block
\* height <= height.
C7_PageWithinHeight ==
    (PageReturned /\ PageCount >= 0 /\ PageStartFrom >= 0)
    => \A i \in DOMAIN PageVisited : HeightOf(PageVisited[i]) <= PageHeight

\* C8: with count <= 0 the handler is never invoked.
C8_NoVisitForCountZero ==
    (PageReturned /\ PageCount <= 0 /\ PageStartFrom >= 0) => PageVisited = <<>>

(***************************************************************************)
(* Delete(protocolId) against UpdateBlockTip (checked under SpecThreads).  *)
(***************************************************************************)
\* C9: whenever Delete(protocolId) removes the entry, the entry's block height
\* is <= m_tipHeight at the moment of the removal.
C9_DeleteAtTipUsesCurrentTip ==
    [][\A t \in Threads :
          (pc[t] = "DeleteAtTip" /\ pc'[t] = "DeleteEraseDiskIndex")
          => HeightOf(Find(m_nftProtoIndexSet, frame[t].protocolId)) <= m_tipHeight]_vars

(***************************************************************************)
(* Construction on a store left by an earlier run (checked under           *)
(* SpecRestart).                                                           *)
(***************************************************************************)
\* C10: after the constructor has run on the store an earlier run left, the ids
\* in the index are unique and the total count equals the number of entries in
\* the index.
C10_ConstructEstablishesCount ==
    ret.op = "NftProtocolsManager" =>
        /\ Cardinality(IdsOf(m_nftProtoIndexSet)) = Len(m_nftProtoIndexSet)
        /\ m_totalProtocolsCount = Len(m_nftProtoIndexSet)

(***************************************************************************)
(* Termination of the calls (checked under SpecLock).                      *)
(***************************************************************************)
\* C11: with fair scheduling every call of a member function returns: a thread
\* that is inside a call, or waits at a LOCK(m_cs), is eventually back at its
\* caller.
C11_EveryCallReturns == \A t \in Threads : (pc[t] # "idle") ~> (pc[t] = "idle")

(***************************************************************************)
(* What a lookup returns for an entry that was added.                      *)
(***************************************************************************)
\* protoIndex is a non-null entry with the descriptor, the transaction hash and
\* the block (height and hash) of the AddNftProto call with arguments args
Matches(protoIndex, args) ==
    /\ ~IsNull(protoIndex)
    /\ protoIndex.nftProto = args.nftProto
    /\ protoIndex.regTxHash = args.tx.hash
    /\ protoIndex.pindex.nHeight = args.pindex.nHeight
    /\ protoIndex.pindex.phashBlock = args.pindex.phashBlock

\* C12: AddNftProto with a valid descriptor whose id is not registered goes on
\* to the write-through and returns true, and a GetNftProtoIndex of that id in
\* the step right after the return gives a non-null entry with the descriptor,
\* the transaction hash, the block height and the block hash of the call.
C12_AddThenLookup ==
    [][\A t \in Threads, protocolId \in ProtocolIds :
          /\ (AddCalled(t, protocolId) /\ \A e \in Registered : IdOf(e) # protocolId)
                => pc'[t] = "AddWriteDiskIndex"
          /\ (/\ pc[t] \in {"AddWriteDiskIndex", "AddWriteTotalCount"}
              /\ pc'[t] = "idle"
              /\ nRestarts' = nRestarts)
                => ret' = Returned(t, "AddNftProto", <<IdOf(frame[t].protoIndex)>>, TRUE)
          /\ (/\ ret = Returned(t, "AddNftProto", <<protocolId>>, TRUE)
              /\ ret'.op = "GetNftProtoIndex"
              /\ ret'.args = <<protocolId>>)
                => Matches(ret'.result, added[protocolId])]_vars

\* C12 witness: a GetNftProtoIndex has returned the entry of an AddNftProto
\* call at the top height, next to another entry
C12_Witness ==
    /\ ret.op = "GetNftProtoIndex"
    /\ added[ret.args[1]] # NoAdd
    /\ Matches(ret.result, added[ret.args[1]])
    /\ HeightOf(ret.result) = MaxHeight
    /\ Len(m_nftProtoIndexSet) = 2

\* C13 (checked under SpecRestart): for every entry added by an AddNftProto
\* that returned true and not erased by a Delete since, a GetNftProtoIndex of
\* its id on the manager newly constructed from the store gives a non-null entry
\* with the id, the owner, the block height and the block hash that were added.
C13_RestartRoundTrip ==
    [][\A protocolId \in ProtocolIds :
          (/\ ret.op = "NftProtocolsManager"
           /\ added[protocolId] # NoAdd
           /\ ret'.op = "GetNftProtoIndex"
           /\ ret'.args = <<protocolId>>)
          => /\ ~IsNull(ret'.result)
             /\ IdOf(ret'.result) = protocolId
             /\ ret'.result.nftProto.tokenProtocolOwnerId
                    = added[protocolId].nftProto.tokenProtocolOwnerId
             /\ HeightOf(ret'.result) = added[protocolId].pindex.nHeight
             /\ ret'.result.pindex.phashBlock = added[protocolId].pindex.phashBlock]_vars

\* C13 witness: after a restart a GetNftProtoIndex has returned the entry that
\* was added at the top height
C13_Witness ==
    /\ nRestarts > 0
    /\ ret.op = "GetNftProtoIndex"
    /\ added[ret.args[1]] # NoAdd
    /\ IdOf(ret.result) = ret.args[1]
    /\ HeightOf(ret.result) = MaxHeight
    /\ HeightOf(ret.result) = added[ret.args[1]].pindex.nHeight
    /\ ret.result.nftProto = added[ret.args[1]].nftProto

(***************************************************************************)
(* The tip.                                                                *)
(***************************************************************************)
\* C14: m_tipHeight and m_tipBlockHash change only in UpdateBlockTip: every
\* step of AddNftProto, Delete, GetNftProtoIndex, Contains, OwnerOf and the two
\* range queries, successful or not, leaves both as they were, and the step of
\* UpdateBlockTip(pindex) sets them to the height and the hash of pindex.
C14_TipChangesOnlyInUpdateBlockTip ==
    [][IF ret'.op = "UpdateBlockTip"
       THEN /\ m_tipHeight' = ret'.args[1].nHeight
            /\ m_tipBlockHash' = ret'.args[1].phashBlock
       ELSE /\ m_tipHeight' = m_tipHeight
            /\ m_tipBlockHash' = m_tipBlockHash]_vars

\* C14 witness: the tip was set to the top block, and an AddNftProto at a lower
\* block has returned true since
C14_Witness ==
    /\ ret.op = "AddNftProto"
    /\ ret.result = TRUE
    /\ m_tipHeight = MaxHeight
    /\ m_tipBlockHash = GetBlockHash(MaxHeight)
    /\ added[ret.args[1]].pindex.nHeight < m_tipHeight

(***************************************************************************)
(* Calls for an id that is not registered.                                 *)
(***************************************************************************)
\* the step changes nothing of the manager and writes nothing
NoStateChange ==
    /\ m_nftProtoIndexSet' = m_nftProtoIndexSet
    /\ m_totalProtocolsCount' = m_totalProtocolsCount
    /\ m_tipHeight' = m_tipHeight
    /\ m_tipBlockHash' = m_tipBlockHash
    /\ dbProtoIndex' = dbProtoIndex
    /\ dbTotalCount' = dbTotalCount
    /\ dbIssued' = NoWrite

\* a step in which thread t calls op, which returns in the step
CallReturned(t, op) ==
    /\ pc[t] = "idle"
    /\ ret'.thread = t
    /\ ret'.op = op

\* C15: for an id that is in neither the index nor the store, GetNftProtoIndex
\* returns the null entry, Contains(protocolId, height) returns false and
\* Delete(protocolId, height) returns false, and each leaves the index, the
\* store, the total count and the tip as they were.
C15_MissingIdChangesNothing ==
    [][\A t \in Threads, protocolId \in ProtocolIds :
          (protocolId \notin IdsOf(m_nftProtoIndexSet) /\ protocolId \notin DbIds(dbProtoIndex))
          => /\ (CallReturned(t, "GetNftProtoIndex") /\ ret'.args = <<protocolId>>)
                   => (ret'.result = NullProtoIndex /\ NoStateChange)
             /\ (CallReturned(t, "Contains") /\ ret'.args[1] = protocolId)
                   => (ret'.result = FALSE /\ NoStateChange)
             /\ \A height \in 0..MaxHeight :
                   DeleteCalled(t, protocolId, height)
                   => /\ ret' = Returned(t, "Delete", <<protocolId, height>>, FALSE)
                      /\ pc'[t] = "idle"
                      /\ NoStateChange]_vars

\* C15 witness: a Delete has returned false for an id that is in neither the
\* index nor the store, while another id is registered
C15_Witness ==
    /\ ret.op = "Delete"
    /\ ret.result = FALSE
    /\ ret.args[1] \notin IdsOf(m_nftProtoIndexSet)
    /\ ret.args[1] \notin DbIds(dbProtoIndex)
    /\ Len(m_nftProtoIndexSet) = 1

(***************************************************************************)
(* AddNftProto of one id from several threads (checked under SpecThreads). *)
(***************************************************************************)
\* thread t is in AddNftProto, past the emplace
AddInProgress(t) == pc[t] \in {"AddWriteDiskIndex", "AddWriteTotalCount"}

\* C16: when threads call AddNftProto with the same unregistered id, in every
\* interleaving one call returns true, one entry write for the id reaches the
\* store and the total count, in memory and persisted, rises by one: a call
\* passes the emplace only for an id that is not in the index and while no
\* other call is past it; the entry is written for an id that is not in the
\* store; true is returned for an id no other call has returned true for
\* since, with both counts one higher; and no other step writes an entry or
\* raises a count.
C16_ConcurrentAddOnce ==
    [][/\ \A t \in Threads :
            /\ (pc[t] = "idle" /\ AddInProgress(t)')
                  => /\ IdOf(frame'[t].protoIndex) \notin IdsOf(m_nftProtoIndexSet)
                     /\ \A u \in Threads \ {t} : ~AddInProgress(u)
            /\ (pc[t] = "AddWriteDiskIndex" /\ pc'[t] = "AddWriteTotalCount")
                  => /\ IdOf(frame[t].protoIndex) \notin DbIds(dbProtoIndex)
                     /\ IdOf(frame[t].protoIndex) \in DbIds(dbProtoIndex')
                     /\ dbTotalCount' = dbTotalCount
                     /\ m_totalProtocolsCount' = m_totalProtocolsCount
            /\ (pc[t] = "AddWriteTotalCount" /\ pc'[t] = "idle")
                  => /\ ret' = Returned(t, "AddNftProto", <<IdOf(frame[t].protoIndex)>>, TRUE)
                     /\ added[IdOf(frame[t].protoIndex)] = NoAdd
                     /\ m_totalProtocolsCount' = m_totalProtocolsCount + 1
                     /\ dbTotalCount' = dbTotalCount + 1
                     /\ dbProtoIndex' = dbProtoIndex
       /\ (dbIssued' = "WriteNftProtoDiskIndex" \/ dbProtoIndex' \ dbProtoIndex # {})
             => \E t \in Threads : pc[t] = "AddWriteDiskIndex" /\ pc'[t] = "AddWriteTotalCount"
       /\ (m_totalProtocolsCount' > m_totalProtocolsCount \/ dbTotalCount' > dbTotalCount)
             => \E t \in Threads : pc[t] = "AddWriteTotalCount" /\ pc'[t] = "idle"
       /\ (ret'.op = "AddNftProto" /\ ret'.result = TRUE)
             => \E t \in Threads : pc[t] = "AddWriteTotalCount" /\ pc'[t] = "idle"]_vars

\* C16 witness: the other thread's AddNftProto of the id has returned false,
\* after one call returned true for it, one entry and a count of 1 in the store
C16_Witness ==
    /\ ret = Returned("t2", "AddNftProto", <<1>>, FALSE)
    /\ added[1] # NoAdd
    /\ netAdded = 1
    /\ m_totalProtocolsCount = 1
    /\ dbTotalCount = 1
    /\ DbIds(dbProtoIndex) = {1}

(***************************************************************************)
(* The cache fill of GetNftProtoIndexFromDb (checked under SpecStore).     *)
(***************************************************************************)
\* C17: assert(insRes.second) of line 168 never fails: in every interleaving,
\* when GetNftProtoIndex, OwnerOf or Contains miss the index and the store
\* gives a non-null entry, the emplace of that entry succeeds.
C17_CacheFillNeverFails == ret.op # "assert(insRes.second)"

\* C17 witness: a GetNftProtoIndex has returned an entry that no AddNftProto
\* of this manager put into the index: it was read from the store and emplaced
C17_Witness ==
    /\ ret.op = "GetNftProtoIndex"
    /\ ~IsNull(ret.result)
    /\ added[ret.args[1]] = NoAdd
    /\ Find(m_nftProtoIndexSet, ret.args[1]) = ret.result
    /\ Len(m_nftProtoIndexSet) = 2

(***************************************************************************)
(* The order of the effects of AddNftProto and Delete.                     *)
(***************************************************************************)
\* the id the call of the thread in the critical section is about
LockedId ==
    IF frame[m_cs].op = "AddNftProto"
    THEN IdOf(frame[m_cs].protoIndex)
    ELSE frame[m_cs].protocolId

\* C18: a successful AddNftProto inserts into the index, then writes the entry
\* to the store, then writes the incremented count; a successful Delete erases
\* from the index, then erases the entry from the store, then writes the
\* decremented count. So: the index changes with the store still as before
\* the call; the entry is written (erased) with the index already changed and
\* both counts as before the call; and the count is written with the entry
\* already written (erased).
C18_EffectOrder ==
    [][/\ \A t \in Threads :
            /\ (pc[t] = "idle" /\ pc'[t] = "AddWriteDiskIndex")
                  => /\ IdOf(frame'[t].protoIndex) \in IdsOf(m_nftProtoIndexSet')
                     /\ IdOf(frame'[t].protoIndex) \notin DbIds(dbProtoIndex')
                     /\ UNCHANGED <<m_totalProtocolsCount, dbProtoIndex, dbTotalCount>>
                     /\ dbIssued' = NoWrite
            /\ (pc[t] \in {"idle", "DeleteAtTip"} /\ pc'[t] = "DeleteEraseDiskIndex")
                  => /\ frame'[t].protocolId \notin IdsOf(m_nftProtoIndexSet')
                     /\ frame'[t].protocolId \in DbIds(dbProtoIndex')
                     /\ UNCHANGED <<m_totalProtocolsCount, dbProtoIndex, dbTotalCount>>
                     /\ dbIssued' = NoWrite
       /\ dbIssued' = "WriteNftProtoDiskIndex"
             => /\ m_cs \in Threads
                /\ frame[m_cs].op = "AddNftProto"
                /\ ToDiskIndex(frame[m_cs].protoIndex) \in dbProtoIndex'
                /\ frame[m_cs].protoIndex
                      \in {m_nftProtoIndexSet[i] : i \in DOMAIN m_nftProtoIndexSet}
                /\ UNCHANGED <<m_nftProtoIndexSet, m_totalProtocolsCount, dbTotalCount>>
                /\ dbTotalCount = m_totalProtocolsCount
       /\ dbIssued' = "EraseNftProtoDiskIndex"
             => /\ m_cs \in Threads
                /\ frame[m_cs].op \in {"Delete", "DeleteAtTip"}
                /\ LockedId \notin DbIds(dbProtoIndex')
                /\ LockedId \notin IdsOf(m_nftProtoIndexSet)
                /\ UNCHANGED <<m_nftProtoIndexSet, m_totalProtocolsCount, dbTotalCount>>
                /\ dbTotalCount = m_totalProtocolsCount
       /\ dbIssued' = "WriteTotalProtocolCount"
             => /\ m_cs \in Threads
                /\ UNCHANGED <<m_nftProtoIndexSet, dbProtoIndex>>
                /\ IF frame[m_cs].op = "AddNftProto"
                   THEN /\ LockedId \in IdsOf(m_nftProtoIndexSet)
                        /\ ToDiskIndex(frame[m_cs].protoIndex) \in dbProtoIndex
                        /\ dbTotalCount' = dbTotalCount + 1
                        /\ ret'.result = TRUE
                   ELSE /\ LockedId \notin IdsOf(m_nftProtoIndexSet)
                        /\ LockedId \notin DbIds(dbProtoIndex)
                        /\ dbTotalCount' = dbTotalCount - 1
                        /\ ret'.result = TRUE
       /\ (dbProtoIndex' # dbProtoIndex \/ dbTotalCount' # dbTotalCount)
             => dbIssued' # NoWrite]_vars

\* C18 witness: a second AddNftProto has returned true with its count of 2
\* written last, its entry in the index and in the store
C18_Witness ==
    /\ dbIssued = "WriteTotalProtocolCount"
    /\ ret.op = "AddNftProto"
    /\ ret.result = TRUE
    /\ dbTotalCount = 2
    /\ ret.args[1] \in IdsOf(m_nftProtoIndexSet)
    /\ ret.args[1] \in DbIds(dbProtoIndex)

(***************************************************************************)
(* The index against the store (checked under SpecRestart).                *)
(***************************************************************************)
\* C19: with the store written only by the manager, whenever no call is in the
\* critical section the ids in the index are the ids in the store and the
\* persisted count is the total count in memory; so no GetNftProtoIndex,
\* Contains or OwnerOf, after the constructor or later, fills the index from
\* the store.
C19_CacheCoherent ==
    /\ [](m_cs = NoThread =>
            /\ IdsOf(m_nftProtoIndexSet) = DbIds(dbProtoIndex)
            /\ dbTotalCount = m_totalProtocolsCount)
    /\ [][ret'.op \in {"GetNftProtoIndex", "Contains", "ContainsAtTip", "OwnerOf"}
            => m_nftProtoIndexSet' = m_nftProtoIndexSet]_vars

\* C19 witness: on the manager constructed at a restart OwnerOf has found the
\* owner of one of the two ids that are in the store and in the index
C19_Witness ==
    /\ nRestarts > 0
    /\ ret.op = "OwnerOf"
    /\ ~ret.ub
    /\ ret.result = Find(m_nftProtoIndexSet, ret.args[1]).nftProto.tokenProtocolOwnerId
    /\ IdsOf(m_nftProtoIndexSet) = ProtocolIds
    /\ DbIds(dbProtoIndex) = ProtocolIds

(***************************************************************************)
(* The offsets of the paged query (checked under SpecPage).                *)
(***************************************************************************)
\* C20: for count >= 0 and startFrom >= 0 the offsets of lines 115-116 satisfy
\* 0 <= reverseEnd <= reverseBegin <= rangeSize, so begin is not after end and
\* neither lies beyond the end of the range.
C20_OffsetsWithinRange ==
    (/\ ret.op = "ProcessNftProtoIndexRangeByHeight"
     /\ ret.args[3] >= 0
     /\ ret.args[4] >= 0)
    => LET rangeSize == RangeSize(m_nftProtoIndexSet, ret.args[2])
           reverseBegin == ReverseBegin(rangeSize, ret.args[4])
           reverseEnd == ReverseEnd(rangeSize, ret.args[3], ret.args[4])
       IN  /\ 0 <= reverseEnd
           /\ reverseEnd <= reverseBegin
           /\ reverseBegin <= rangeSize

====
